---- MODULE Spec2Model ----
(***************************************************************************)
(* fix_colors.py: a one-shot rewriting script.  main() enumerates the      *)
(* component files, and fix_color_conversions(file_path) reads one file,   *)
(* runs nine re.sub calls over the text (patterns 1-4, then one pattern    *)
(* per name of color_vars), and writes the file back when the text         *)
(* changed.                                                                *)
(*                                                                         *)
(* Text is a sequence of one-character strings, and the regular            *)
(* expressions are matched character by character.  The variable `by` is   *)
(* a ghost of the same length as `content`: by[k] is 0 for a character     *)
(* that was read from the file and r for a character written by the        *)
(* replacement of rule r (1-4 for patterns 1-4, 5-9 for the color_vars     *)
(* in list order).                                                         *)
(***************************************************************************)
EXTENDS Integers, Sequences, FiniteSets, TLC

\* ------------------------------------------------------------------------
\* Bounds of the model.
\* ------------------------------------------------------------------------
\* Number of paths on the disk of the batch specification.
MaxFiles == 3
\* Most vocabulary chunks concatenated into one input buffer.
MaxChunks == 3
\* Number of times the script is run on the same tree.
MaxRuns == 2

\* ------------------------------------------------------------------------
\* Literal text of the patterns and the replacement templates.
\* ------------------------------------------------------------------------
SELF_THEME_SCHEME == <<"s","e","l","f",".","t","h","e","m","e",".","s","c","h","e","m","e",".">>
THEME_SCHEME == <<"t","h","e","m","e",".","s","c","h","e","m","e",".">>
SCALE_ALPHA == <<".","s","c","a","l","e","_","a","l","p","h","a","(">>
INTO == <<".","i","n","t","o","(",")">>
ICED_COLOR_FROM == <<"i","c","e","d",":",":","C","o","l","o","r",":",":","f","r","o","m","(">>
RPAREN == <<")">>

Letters ==
  {"a","b","c","d","e","f","g","h","i","j","k","l","m","n","o","p","q","r","s","t","u","v","w","x","y","z",
   "A","B","C","D","E","F","G","H","I","J","K","L","M","N","O","P","Q","R","S","T","U","V","W","X","Y","Z"}

Digits == {"0","1","2","3","4","5","6","7","8","9"}

\* The character class [a-zA-Z_] of group 1.
NameClass == Letters \cup {"_"}

\* The class with the decimal point forgotten: [0-9].
NumClass_DigitsOnly == Digits

\* The character class [0-9.] of group 2.
NumClass == Digits \cup {"."}

color_vars ==
  << <<"b","a","c","k","g","r","o","u","n","d","_","c","o","l","o","r">>,
     <<"b","o","r","d","e","r","_","c","o","l","o","r">>,
     <<"t","e","x","t","_","c","o","l","o","r">>,
     <<"s","u","r","f","a","c","e","_","c","o","l","o","r">>,
     <<"c","o","u","n","t","e","r","_","c","o","l","o","r">> >>

\* A pattern is its literal prefix, whether ([a-zA-Z_]+) follows it, and
\* whether \.scale_alpha\(([0-9.]+)\) follows that; every pattern ends with
\* \.into\(\).
pattern1 == [prefix |-> SELF_THEME_SCHEME, name |-> TRUE, alpha |-> FALSE]
pattern2 == [prefix |-> THEME_SCHEME, name |-> TRUE, alpha |-> FALSE]
pattern3 == [prefix |-> SELF_THEME_SCHEME, name |-> TRUE, alpha |-> TRUE]
pattern4 == [prefix |-> THEME_SCHEME, name |-> TRUE, alpha |-> TRUE]
pattern(var) == [prefix |-> var, name |-> FALSE, alpha |-> FALSE]

\* Templates gone wrong: the template of pattern 2 pasted for pattern 1, one
\* that wraps the match without dropping its .into(), the template of
\* pattern 1 pasted for pattern 3, and one without its closing parenthesis.
replacement1_Pasted(g1) == ICED_COLOR_FROM \o THEME_SCHEME \o g1 \o RPAREN
replacement1_KeepsInto(g1) ==
  ICED_COLOR_FROM \o SELF_THEME_SCHEME \o g1 \o INTO \o RPAREN
replacement3_Pasted(g1, g2) == ICED_COLOR_FROM \o SELF_THEME_SCHEME \o g1 \o RPAREN
replacement_Unclosed(var) == ICED_COLOR_FROM \o var

\* The replacement templates, with \1 and \2 as g1 and g2.
replacement1(g1) == ICED_COLOR_FROM \o SELF_THEME_SCHEME \o g1 \o RPAREN
replacement2(g1) == ICED_COLOR_FROM \o THEME_SCHEME \o g1 \o RPAREN
replacement3(g1, g2) ==
  ICED_COLOR_FROM \o SELF_THEME_SCHEME \o g1 \o SCALE_ALPHA \o g2 \o RPAREN \o RPAREN
replacement4(g1, g2) ==
  ICED_COLOR_FROM \o THEME_SCHEME \o g1 \o SCALE_ALPHA \o g2 \o RPAREN \o RPAREN
replacement(var) == ICED_COLOR_FROM \o var \o RPAREN

\* Rules 1-4 are the four numbered patterns; rules 5-9 are the loop over
\* color_vars.
NumRules == 4 + Len(color_vars)

PatternOf(r) ==
  CASE r = 1 -> pattern1
    [] r = 2 -> pattern2
    [] r = 3 -> pattern3
    [] r = 4 -> pattern4
    [] OTHER -> pattern(color_vars[r - 4])

Expand(r, m) ==
  CASE r = 1 -> replacement1(m.g1)
    [] r = 2 -> replacement2(m.g1)
    [] r = 3 -> replacement3(m.g1, m.g2)
    [] r = 4 -> replacement4(m.g1, m.g2)
    [] OTHER -> replacement(color_vars[r - 4])

\* ------------------------------------------------------------------------
\* Matching.
\* ------------------------------------------------------------------------
\* lit occurs in s at position i.
HasLit(s, i, lit) ==
  /\ i + Len(lit) - 1 <= Len(s)
  /\ SubSeq(s, i, i + Len(lit) - 1) = lit

\* Length of the longest run of characters of cls from position i on: a
\* greedy cls+.  Each class is followed in its pattern by a character
\* outside the class (\. after the name, \) after the number), so
\* backtracking to a shorter run never finds a match the longest run
\* misses.
RunLen(s, i, cls) ==
  LET end == CHOOSE j \in i..(Len(s) + 1) :
               /\ j > Len(s) \/ s[j] \notin cls
               /\ \A k \in i..(j - 1) : s[k] \in cls
  IN  end - i

NoMatch == [len |-> 0, g1 |-> <<>>, g2 |-> <<>>]

\* The match of pat that starts at position i of s: its length and groups,
\* or NoMatch.
MatchAt(pat, s, i) ==
  IF ~ (s[i] = pat.prefix[1] /\ HasLit(s, i, pat.prefix)) THEN NoMatch
  ELSE
    LET a == i + Len(pat.prefix)
        n == IF pat.name THEN RunLen(s, a, NameClass) ELSE 0
        b == a + n
        hasAlpha == pat.alpha /\ HasLit(s, b, SCALE_ALPHA)
        c == b + Len(SCALE_ALPHA)
        k == IF hasAlpha THEN RunLen(s, c, NumClass) ELSE 0
        d == IF pat.alpha THEN c + k + 1 ELSE b
    IN  IF /\ pat.name => n > 0
           /\ pat.alpha => (hasAlpha /\ k > 0 /\ HasLit(s, c + k, RPAREN))
           /\ HasLit(s, d, INTO)
        THEN [len |-> d + Len(INTO) - i,
              g1 |-> SubSeq(s, a, b - 1),
              g2 |-> IF pat.alpha THEN SubSeq(s, c, c + k - 1) ELSE <<>>]
        ELSE NoMatch

Min(S) == CHOOSE x \in S : \A y \in S : x <= y

\* The positions of s where pattern r matches.
Starts(r, s) ==
  LET pat == PatternOf(r)
      first == pat.prefix[1]
  IN  {j \in 1..Len(s) : s[j] = first /\ MatchAt(pat, s, j).len > 0}

\* re.sub(pattern, replacement, s) from position i on, acc being the
\* result for the text before i: the leftmost match is replaced and
\* scanning resumes after it, so matches do not overlap.  n counts the
\* matches, and touched tells whether a match covered a character some
\* rule wrote.
RECURSIVE SubFrom(_, _, _, _, _, _)
SubFrom(r, s, b, i, starts, acc) ==
  LET later == {j \in starts : j >= i}
  IN  IF later = {}
      THEN [text |-> acc.text \o SubSeq(s, i, Len(s)),
            by |-> acc.by \o SubSeq(b, i, Len(s)),
            n |-> acc.n,
            touched |-> acc.touched]
      ELSE
        LET j == Min(later)
            m == MatchAt(PatternOf(r), s, j)
            rep == Expand(r, m)
        IN  SubFrom(r, s, b, j + m.len, starts,
                    [text |-> acc.text \o SubSeq(s, i, j - 1) \o rep,
                     by |-> acc.by \o SubSeq(b, i, j - 1) \o [k \in 1..Len(rep) |-> r],
                     n |-> acc.n + 1,
                     touched |-> acc.touched \/ \E k \in j..(j + m.len - 1) : b[k] # 0])

\* re.sub called with count=1: only the leftmost match is replaced.
ReSub_FirstOnly(r, s, b) ==
  LET starts == Starts(r, s)
  IN  SubFrom(r, s, b, 1, IF starts = {} THEN {} ELSE {Min(starts)},
              [text |-> <<>>, by |-> <<>>, n |-> 0, touched |-> FALSE])

ReSub(r, s, b) ==
  SubFrom(r, s, b, 1, Starts(r, s),
          [text |-> <<>>, by |-> <<>>, n |-> 0, touched |-> FALSE])

Zeros(s) == [j \in 1..Len(s) |-> 0]

\* The text after rules r..NumRules, in order.
RECURSIVE SubsFrom(_, _)
SubsFrom(r, s) ==
  IF r > NumRules THEN s ELSE SubsFrom(r + 1, ReSub(r, s, Zeros(s)).text)

\* Lines 16-44 as a function of the text read.
FixedText(s) == SubsFrom(1, s)

\* ------------------------------------------------------------------------
\* Inputs.
\* ------------------------------------------------------------------------
\* Qualified accesses (patterns 1 and 2, and color_vars names under them).
VocabAccess ==
  { SELF_THEME_SCHEME, THEME_SCHEME, <<"f","g","_","B">>, <<"t","e","x","t","_","c","o","l","o","r">>, INTO, RPAREN, <<";">> }

\* Alpha scaling (patterns 3 and 4) with well and ill formed arguments.
VocabAlpha ==
  { <<"s","e","l","f",".","t","h","e","m","e",".","s","c","h","e","m","e",".","f","g">>, <<"t","h","e","m","e",".","s","c","h","e","m","e",".","t","e","x","t","_","c","o","l","o","r">>,
    <<".","s","c","a","l","e","_","a","l","p","h","a","(","0",".","5",")">>, <<".","s","c","a","l","e","_","a","l","p","h","a","(","1",".","2",".","3",")">>, <<".","s","c","a","l","e","_","a","l","p","h","a","(",".",")">>,
    <<".","s","c","a","l","e","_","a","l","p","h","a","(",")">>, <<".","s","c","a","l","e","_","a","l","p","h","a","(","x",")">>, INTO }

\* Bare variables (the color_vars loop).
VocabVars ==
  { <<"b","a","c","k","g","r","o","u","n","d","_","c","o","l","o","r">>, <<"b","o","r","d","e","r","_","c","o","l","o","r">>, <<"t","e","x","t","_","c","o","l","o","r">>,
    <<"s","u","r","f","a","c","e","_","c","o","l","o","r">>, <<"c","o","u","n","t","e","r","_","c","o","l","o","r">>,
    <<"u","n","r","e","l","a","t","e","d","_","c","o","l","o","r">>, <<"m","y","_">>, INTO, <<" ">> }

\* Whole call expressions, one per rule, so that several rules match in one
\* buffer.
VocabCalls ==
  { <<"s","e","l","f",".","t","h","e","m","e",".","s","c","h","e","m","e",".","f","g",".","i","n","t","o","(",")">>, <<"t","h","e","m","e",".","s","c","h","e","m","e",".","f","g",".","i","n","t","o","(",")">>,
    <<"s","e","l","f",".","t","h","e","m","e",".","s","c","h","e","m","e",".","f","g",".","s","c","a","l","e","_","a","l","p","h","a","(","0",".","5",")",".","i","n","t","o","(",")">>,
    <<"t","h","e","m","e",".","s","c","h","e","m","e",".","f","g",".","s","c","a","l","e","_","a","l","p","h","a","(","0",".","5",")",".","i","n","t","o","(",")">>,
    <<"b","a","c","k","g","r","o","u","n","d","_","c","o","l","o","r",".","i","n","t","o","(",")">>, <<"t","e","x","t","_","c","o","l","o","r",".","i","n","t","o","(",")">>, <<";">> }

Vocabularies == {VocabAccess, VocabAlpha, VocabVars, VocabCalls}

RECURSIVE Buffers(_, _)
Buffers(V, n) ==
  IF n = 0 THEN {<<>>}
  ELSE LET B == Buffers(V, n - 1) IN B \cup {b \o c : b \in B, c \in V}

Inputs == UNION {Buffers(V, MaxChunks) : V \in Vocabularies}

\* File contents of the batch specification: one file that pattern 1
\* rewrites, one that the color_vars loop rewrites, and one that no rule
\* matches.
FileContents ==
  { <<"l","e","t"," ","c"," ","="," ","s","e","l","f",".","t","h","e","m","e",".","s","c","h","e","m","e",".","b","a","c","k","g","r","o","u","n","d",".","i","n","t","o","(",")",";">>,
    <<"b","o","r","d","e","r","_","c","o","l","o","r",".","i","n","t","o","(",")">>,
    <<"u","n","r","e","l","a","t","e","d","_","c","o","l","o","r",".","i","n","t","o","(",")">> }

Paths == 1..MaxFiles

\* All orders in which the paths of S can be enumerated.
RECURSIVE Orders(_)
Orders(S) ==
  IF S = {} THEN {<<>>}
  ELSE UNION {{<<p>> \o o : o \in Orders(S \ {p})} : p \in S}

\* ------------------------------------------------------------------------
\* State.
\* ------------------------------------------------------------------------
VARIABLES
  disk,             \* path -> text of the file
  component_files,  \* the paths glob.glob returned, in its order
  idx,              \* number of paths the for loop of main has taken
  pc,               \* position of the run
  file_path,        \* argument of the current fix_color_conversions call
  content,          \* the buffer
  original_content, \* the text read
  rule,             \* next re.sub to run, 1..NumRules
  files_modified,   \* the tally of main
  stdout,           \* lines printed by the current run
  run,              \* number of the current run
  last_return,      \* what the last fix_color_conversions call returned
  by,               \* ghost: which rule wrote each character of content
  fired,            \* ghost: matches of each rule in the current file
  touched,          \* ghost: a match covered text written by a rule
  disk0,            \* ghost: the disk when the current run started
  reads,            \* ghost: number of times each path was read in this run
  opened_w,         \* ghost: paths opened for writing in this run
  error             \* ghost: the exception that ended the run, or "none"

vars ==
  << disk, component_files, idx, pc, file_path, content, original_content, rule,
     files_modified, stdout, run, last_return, by, fired, touched, disk0, reads,
     opened_w, error >>

NoFired == [r \in 1..NumRules |-> 0]

RECURSIVE SumTo(_, _)
SumTo(f, r) == IF r = 0 THEN 0 ELSE f[r] + SumTo(f, r - 1)

\* Matches of all rules in the current file so far.
Matches == SumTo(fired, NumRules)

StartRun(d, files) ==
  /\ disk = d
  /\ component_files = files
  /\ idx = 0
  /\ pc = "loop"
  /\ file_path = 0
  /\ content = <<>>
  /\ original_content = <<>>
  /\ rule = 1
  /\ files_modified = 0
  /\ stdout = <<>>
  /\ run = 1
  /\ last_return = "none"
  /\ by = <<>>
  /\ fired = NoFired
  /\ touched = FALSE
  /\ disk0 = d
  /\ reads = [p \in DOMAIN d |-> 0]
  /\ opened_w = {}
  /\ error = "none"

\* A tree of MaxFiles component files, which the glob returns in any order.
Init ==
  \E d \in [Paths -> FileContents] :
    \E files \in Orders(Paths) : StartRun(d, files)

\* One file holding any input buffer.
InitRules ==
  \E s \in Inputs : StartRun([p \in {1} |-> s], <<1>>)

\* ------------------------------------------------------------------------
\* main: lines 58-63.
\* ------------------------------------------------------------------------
\* for file_path in component_files: the call at line 60.
NextFile ==
  /\ pc = "loop"
  /\ idx < Len(component_files)
  /\ idx' = idx + 1
  /\ file_path' = component_files[idx + 1]
  /\ pc' = "read"
  /\ UNCHANGED << disk, component_files, content, original_content, rule,
                  files_modified, stdout, run, last_return, by, fired, touched,
                  disk0, reads, opened_w, error >>

\* print(f"Modified {files_modified} files")
PrintSummary ==
  /\ pc = "loop"
  /\ idx = Len(component_files)
  /\ stdout' = Append(stdout, <<"Modified", files_modified>>)
  /\ pc' = "done"
  /\ UNCHANGED << disk, component_files, idx, file_path, content,
                  original_content, rule, files_modified, run, last_return, by,
                  fired, touched, disk0, reads, opened_w, error >>

\* ------------------------------------------------------------------------
\* fix_color_conversions: lines 11-52.
\* ------------------------------------------------------------------------
\* Lines 13-16: open, read, decode; original_content = content.
ReadFile ==
  /\ pc = "read"
  /\ content' = disk[file_path]
  /\ original_content' = disk[file_path]
  /\ by' = Zeros(disk[file_path])
  /\ fired' = NoFired
  /\ touched' = FALSE
  /\ rule' = 1
  /\ reads' = [reads EXCEPT ![file_path] = @ + 1]
  /\ pc' = "subs"
  /\ UNCHANGED << disk, component_files, idx, file_path, files_modified,
                  stdout, run, last_return, disk0, opened_w, error >>

\* The exception caught and the file skipped.
ReadFails_Swallowed ==
  /\ pc = "read"
  /\ pc' = "loop"
  /\ error' = "read"
  /\ UNCHANGED << disk, component_files, idx, file_path, content,
                  original_content, rule, files_modified, stdout, run,
                  last_return, by, fired, touched, disk0, reads, opened_w >>

\* Lines 13-14 raise (the file cannot be opened, or is not UTF-8): nothing
\* catches the exception, so the process ends.
ReadFails ==
  /\ pc = "read"
  /\ pc' = "aborted"
  /\ error' = "read"
  /\ UNCHANGED << disk, component_files, idx, file_path, content,
                  original_content, rule, files_modified, stdout, run,
                  last_return, by, fired, touched, disk0, reads, opened_w >>

\* content = re.sub(...) for rule r.
Substitute(r) ==
  /\ pc = "subs"
  /\ rule = r
  /\ \E res \in {ReSub(r, content, by)} :
       /\ content' = res.text
       /\ by' = res.by
       /\ fired' = [fired EXCEPT ![r] = @ + res.n]
       /\ touched' = (touched \/ res.touched)
  /\ rule' = IF r < NumRules THEN r + 1 ELSE 1
  /\ pc' = IF r < NumRules THEN "subs" ELSE "compare"
  /\ UNCHANGED << disk, component_files, idx, file_path, original_content,
                  files_modified, stdout, run, last_return, disk0, reads,
                  opened_w, error >>

\* Line 21.
Sub1 == Substitute(1)
\* Line 26.
Sub2 == Substitute(2)
\* Line 31.
Sub3 == Substitute(3)
\* Line 36.
Sub4 == Substitute(4)
\* Lines 41-44, one iteration.
Sub5 == \E r \in 5..NumRules : Substitute(r)

\* The file written whether or not the text changed.
CompareChanged_Always ==
  /\ pc = "compare"
  /\ pc' = "write"
  /\ UNCHANGED << disk, component_files, idx, file_path, content,
                  original_content, rule, files_modified, stdout, run,
                  last_return, by, fired, touched, disk0, reads, opened_w, error >>

\* Line 46, content != original_content.
CompareChanged ==
  /\ pc = "compare"
  /\ content # original_content
  /\ pc' = "write"
  /\ UNCHANGED << disk, component_files, idx, file_path, content,
                  original_content, rule, files_modified, stdout, run,
                  last_return, by, fired, touched, disk0, reads, opened_w, error >>

\* main counting every file, whatever the call returned.
ReturnFalse_Counted ==
  /\ pc = "compare"
  /\ content = original_content
  /\ last_return' = "False"
  /\ files_modified' = files_modified + 1
  /\ pc' = "loop"
  /\ UNCHANGED << disk, component_files, idx, file_path, content,
                  original_content, rule, stdout, run, by, fired, touched,
                  disk0, reads, opened_w, error >>

\* Lines 46 and 52: return False, and main does not count the file.
ReturnFalse ==
  /\ pc = "compare"
  /\ content = original_content
  /\ last_return' = "False"
  /\ pc' = "loop"
  /\ UNCHANGED << disk, component_files, idx, file_path, content,
                  original_content, rule, files_modified, stdout, run, by,
                  fired, touched, disk0, reads, opened_w, error >>

\* Lines 47-48.
WriteFile ==
  /\ pc = "write"
  /\ disk' = [disk EXCEPT ![file_path] = content]
  /\ opened_w' = opened_w \cup {file_path}
  /\ pc' = "print"
  /\ UNCHANGED << component_files, idx, file_path, content, original_content,
                  rule, files_modified, stdout, run, last_return, by, fired,
                  touched, disk0, reads, error >>

\* Lines 47-48 raise.  Either open fails and the file is as it was, or
\* open has truncated the file and the write fails; the buffered text
\* reaches the file in one flush, so the file is then left empty.
WriteFails ==
  /\ pc = "write"
  /\ \/ UNCHANGED << disk, opened_w >>
     \/ /\ disk' = [disk EXCEPT ![file_path] = <<>>]
        /\ opened_w' = opened_w \cup {file_path}
  /\ pc' = "aborted"
  /\ error' = "write"
  /\ UNCHANGED << component_files, idx, file_path, content, original_content,
                  rule, files_modified, stdout, run, last_return, by, fired,
                  touched, disk0, reads >>

\* Line 49.
PrintFixed ==
  /\ pc = "print"
  /\ stdout' = Append(stdout, <<"Fixed color conversions in", file_path>>)
  /\ pc' = "return"
  /\ UNCHANGED << disk, component_files, idx, file_path, content,
                  original_content, rule, files_modified, run, last_return, by,
                  fired, touched, disk0, reads, opened_w, error >>

\* Line 50, and lines 60-61 of main: files_modified += 1.
ReturnTrue ==
  /\ pc = "return"
  /\ last_return' = "True"
  /\ files_modified' = files_modified + 1
  /\ pc' = "loop"
  /\ UNCHANGED << disk, component_files, idx, file_path, content,
                  original_content, rule, stdout, run, by, fired, touched,
                  disk0, reads, opened_w, error >>

\* The script is run again on the tree the last run left.  No run creates,
\* deletes or renames a file, so the glob returns the same paths.
Rerun ==
  /\ pc = "done"
  /\ run < MaxRuns
  /\ run' = run + 1
  /\ idx' = 0
  /\ pc' = "loop"
  /\ files_modified' = 0
  /\ stdout' = <<>>
  /\ last_return' = "none"
  /\ disk0' = disk
  /\ reads' = [p \in DOMAIN disk |-> 0]
  /\ opened_w' = {}
  /\ UNCHANGED << disk, component_files, file_path, content, original_content,
                  rule, by, fired, touched, error >>

Next ==
  \/ NextFile
  \/ ReadFile
  \/ ReadFails
  \/ Sub1
  \/ Sub2
  \/ Sub3
  \/ Sub4
  \/ Sub5
  \/ CompareChanged
  \/ ReturnFalse
  \/ WriteFile
  \/ WriteFails
  \/ PrintFixed
  \/ ReturnTrue
  \/ PrintSummary
  \/ Rerun

Spec == Init /\ [][Next]_vars

SpecRules == InitRules /\ [][Next]_vars

\* ------------------------------------------------------------------------
\* Properties of the rule sequence, checked under SpecRules.
\* ------------------------------------------------------------------------
Range(f) == {f[k] : k \in DOMAIN f}

\* The substitutions of the current file are over.
SubsDone == pc = "compare"

\* s[i..j] is self.theme.scheme.<name>.into(), <name> a non-empty run of
\* letters and underscores.
AccessAt(s, i, j) ==
  /\ HasLit(s, i, SELF_THEME_SCHEME)
  /\ j <= Len(s)
  /\ i + Len(SELF_THEME_SCHEME) <= j - Len(INTO)
  /\ HasLit(s, j - Len(INTO) + 1, INTO)
  /\ \A k \in (i + Len(SELF_THEME_SCHEME))..(j - Len(INTO)) : s[k] \in Letters \cup {"_"}

\* s[i..j] is self.theme.scheme.<name>.scale_alpha(<num>).into() with the
\* name ending at e, <num> a non-empty run of digits and decimal points.
ScaledAt(s, i, e, j) ==
  /\ HasLit(s, i, SELF_THEME_SCHEME)
  /\ j <= Len(s)
  /\ i + Len(SELF_THEME_SCHEME) <= e
  /\ \A k \in (i + Len(SELF_THEME_SCHEME))..e : s[k] \in Letters \cup {"_"}
  /\ HasLit(s, e + 1, SCALE_ALPHA)
  /\ e + Len(SCALE_ALPHA) + 1 <= j - Len(INTO) - 1
  /\ \A k \in (e + Len(SCALE_ALPHA) + 1)..(j - Len(INTO) - 1) : s[k] \in Digits \cup {"."}
  /\ s[j - Len(INTO)] = ")"
  /\ HasLit(s, j - Len(INTO) + 1, INTO)

\* content is FixedText(pre) \o mid \o FixedText(post), and every character
\* of mid was written by rule r.
ReplacedInPlace(pre, mid, post, r) ==
  LET left == FixedText(pre)
  IN  /\ content = left \o mid \o FixedText(post)
      /\ \A k \in (Len(left) + 1)..(Len(left) + Len(mid)) : by[k] = r

\* C1: the rule sequence is idempotent.  A later run reads what the run
\* before it left on disk, and its substitutions match nothing and return
\* the text read, so nothing is written twice.
C1_Idempotent ==
  run > 1 =>
    /\ pc \notin {"write", "print", "return"}
    /\ SubsDone => (content = original_content /\ Matches = 0)
    /\ disk = disk0

\* C1 witness: a second run has gone through text the first run rewrote.
C1_Witness ==
  /\ run = 2
  /\ SubsDone
  /\ \E i \in 1..Len(original_content) : HasLit(original_content, i, ICED_COLOR_FROM)
  /\ content = original_content

\* C2: every self.theme.scheme.<name>.into() of the text read is replaced,
\* where it stands, by iced::Color::from(self.theme.scheme.<name>); the
\* replacement is the one rule 1 wrote, and the text on either side is
\* rewritten as it is on its own.
C2_Pattern1Rewritten ==
  SubsDone =>
    \A i \in 1..Len(original_content) :
      HasLit(original_content, i, SELF_THEME_SCHEME) =>
        \A j \in i..Len(original_content) :
          AccessAt(original_content, i, j) =>
            ReplacedInPlace(
              SubSeq(original_content, 1, i - 1),
              ICED_COLOR_FROM
                \o SubSeq(original_content, i, j - Len(INTO))
                \o RPAREN,
              SubSeq(original_content, j + 1, Len(original_content)),
              1)

\* C2 witness: the text read held self.theme.scheme.fg.into() between two
\* calls that later rules rewrite.
C2_Witness ==
  /\ SubsDone
  /\ run = 1
  /\ \E i \in 2..Len(original_content) :
       /\ AccessAt(original_content, i, i + 26)
       /\ i + 26 < Len(original_content)
  /\ fired[1] = 1
  /\ Matches = 3

\* C3: every self.theme.scheme.<name>.scale_alpha(<num>).into() of the text
\* read is replaced, where it stands, by
\* iced::Color::from(self.theme.scheme.<name>.scale_alpha(<num>)), written
\* by rule 3 and by no other rule.
C3_Pattern3Rewritten ==
  SubsDone =>
    \A i \in 1..Len(original_content) :
      HasLit(original_content, i, SELF_THEME_SCHEME) =>
        \A e \in i..Len(original_content) :
          HasLit(original_content, e + 1, SCALE_ALPHA) =>
            \A j \in e..Len(original_content) :
              ScaledAt(original_content, i, e, j) =>
                ReplacedInPlace(
                  SubSeq(original_content, 1, i - 1),
                  ICED_COLOR_FROM
                    \o SubSeq(original_content, i, j - Len(INTO))
                    \o RPAREN,
                  SubSeq(original_content, j + 1, Len(original_content)),
                  3)

\* C3 witness: the text read held self.theme.scheme.fg.scale_alpha(0.5).into()
\* and rule 3 has run.
C3_Witness ==
  /\ SubsDone
  /\ run = 1
  /\ \E i \in 1..Len(original_content) :
       /\ ScaledAt(original_content, i, i + 19, i + 43)
       /\ SubSeq(original_content, i + 33, i + 35) = <<"0", ".", "5">>
  /\ fired[3] > 0

\* A Rust identifier followed by .into(), and nothing else.
IdentChars == Letters \cup Digits \cup {"_"}

IsIdentInto(s) ==
  /\ Len(s) > Len(INTO)
  /\ HasLit(s, Len(s) - Len(INTO) + 1, INTO)
  /\ \A k \in 1..(Len(s) - Len(INTO)) : s[k] \in IdentChars

\* C4: <identifier>.into() is left as it is when the identifier is none of
\* the five color_vars.
C4_OnlyTheFiveNames ==
  (/\ SubsDone
   /\ IsIdentInto(original_content)
   /\ SubSeq(original_content, 1, Len(original_content) - Len(INTO)) \notin Range(color_vars))
    => content = original_content

\* The arguments <arg> of the theme.scheme.<name>.scale_alpha(<arg>).into()
\* of s, each with the position where the call starts; <arg> is the text up
\* to the first closing parenthesis.
AlphaArgs(s) ==
  UNION {
    UNION {
      { <<i, SubSeq(s, e + Len(SCALE_ALPHA) + 1, j - 1)>> :
          j \in { j \in (e + Len(SCALE_ALPHA) + 1)..Len(s) :
                    /\ HasLit(s, j, RPAREN \o INTO)
                    /\ \A k \in (e + Len(SCALE_ALPHA) + 1)..(j - 1) : s[k] # ")" } } :
      e \in { e \in (i + Len(THEME_SCHEME))..Len(s) :
                /\ HasLit(s, e + 1, SCALE_ALPHA)
                /\ \A k \in (i + Len(THEME_SCHEME))..e : s[k] \in Letters \cup {"_"} } } :
    i \in { i \in 1..Len(s) : HasLit(s, i, THEME_SCHEME) } }

\* Digits with at most one decimal point.
IsNumericLiteral(arg) ==
  /\ \A k \in 1..Len(arg) : arg[k] \in Digits \cup {"."}
  /\ \E k \in 1..Len(arg) : arg[k] \in Digits
  /\ Cardinality({k \in 1..Len(arg) : arg[k] = "."}) <= 1

\* A non-empty run of digits and decimal points.
IsDigitsAndPoints(arg) ==
  /\ arg # <<>>
  /\ \A k \in 1..Len(arg) : arg[k] \in Digits \cup {"."}

\* C8 as stated: rules 3 and 4 fire only on an argument that is digits with
\* at most one decimal point.
C8_OnlyNumericLiterals ==
  SubsDone =>
    fired[3] + fired[4]
      <= Cardinality({site \in AlphaArgs(original_content) : IsNumericLiteral(site[2])})

\* C8 as amended: rules 3 and 4 fire on every argument that is a non-empty
\* run of digits and decimal points, 1.2.3 and a lone point included, and
\* on no other argument.
C8_DigitsAndPoints ==
  SubsDone =>
    fired[3] + fired[4]
      = Cardinality({site \in AlphaArgs(original_content) : IsDigitsAndPoints(site[2])})

\* C8 witness: rule 4 has rewritten the one call of the buffer, whose
\* argument is 1.2.3.
C8_Witness ==
  /\ SubsDone
  /\ fired[3] = 0
  /\ fired[4] = 1
  /\ {site[2] : site \in AlphaArgs(original_content)} = { <<"1", ".", "2", ".", "3">> }

\* C9: no match of a rule covers a character that an earlier rule of the
\* same pass wrote.
C9_NoInterference == ~ touched

\* C9 witness: three different rules have each rewritten text of one
\* buffer, the later ones scanning what the earlier ones wrote.
C9_Witness ==
  /\ SubsDone
  /\ Cardinality({r \in 1..NumRules : fired[r] > 0}) = 3
  /\ ~ touched

\* C10: each match makes the buffer 12 characters longer, and the call
\* returns True, having written the file, exactly when a rule matched.
C10_LengthAndReturn ==
  /\ Len(content) = Len(original_content) + 12 * Matches
  /\ pc \in {"write", "print", "return"} => Matches > 0
  /\ (pc = "loop" /\ idx > 0) =>
       /\ last_return \in {"True", "False"}
       /\ last_return = "True" <=> Matches > 0
       /\ last_return = "True" => disk[file_path] = content
       /\ last_return = "False" => disk[file_path] = original_content

\* C10 witness: a call has returned True after three matches.
C10_Witness ==
  /\ pc = "loop"
  /\ last_return = "True"
  /\ Matches = 3

\* ------------------------------------------------------------------------
\* Properties of the batch, checked under Spec.
\* ------------------------------------------------------------------------
\* FixedText of the texts a file of the batch can hold, computed once.
BatchTexts == FileContents \cup {FixedText(c) : c \in FileContents}

FixedBatchText == [c \in BatchTexts |-> FixedText(c)]

Fixed(t) == IF t \in BatchTexts THEN FixedBatchText[t] ELSE FixedText(t)

\* The rule sequence changes the text path p held when the run started.
Changed(p) == Fixed(disk0[p]) # disk0[p]

\* The paths named by the "Fixed color conversions in" lines printed.
FixedLines == {k \in 1..Len(stdout) : stdout[k][1] = "Fixed color conversions in"}

FixedPaths == {stdout[k][2] : k \in FixedLines}

\* The paths whose fix_color_conversions call has returned.
Returned ==
  {component_files[k] : k \in 1..(IF pc \in {"loop", "done"} THEN idx ELSE idx - 1)}

\* C5: a file that no rule matches is not opened for writing, keeps its
\* text, gets no "Fixed" line and is not counted; of the files whose call
\* has returned, those written are those whose text the rules changed.
C5_UnchangedFileUntouched ==
  /\ \A p \in DOMAIN disk :
       /\ p \in opened_w => Changed(p)
       /\ ~ Changed(p) => (disk[p] = disk0[p] /\ p \notin FixedPaths)
       /\ p \in Returned => (p \in opened_w <=> Changed(p))
  /\ (SubsDone /\ Matches = 0) => (content = original_content /\ ~ ENABLED WriteFile)
  /\ files_modified <= Cardinality({p \in Range(component_files) : Changed(p)})
  /\ pc = "done" =>
       files_modified = Cardinality({p \in Range(component_files) : Changed(p)})

\* C5 witness: a run has ended in which a file no rule matches was read and
\* left alone, and another file was written.
C5_Witness ==
  /\ pc = "done"
  /\ run = 1
  /\ \E p \in Range(component_files), q \in Range(component_files) :
       /\ ~ Changed(p)
       /\ reads[p] = 1
       /\ p \notin opened_w
       /\ q \in opened_w
  /\ files_modified = 1

\* C6: an exception ends the run where it is raised.  The files before the
\* failing one are as their calls left them, rewritten or not; the files
\* after it were neither read nor written; no "Modified" line is printed
\* and nothing more happens.
C6_AbortNoRollback ==
  /\ error # "none" <=> pc = "aborted"
  /\ pc = "aborted" =>
       /\ \A k \in 1..(idx - 1) :
            /\ disk[component_files[k]] = Fixed(disk0[component_files[k]])
            /\ Changed(component_files[k]) => component_files[k] \in opened_w
       /\ \A p \in DOMAIN disk :
            (\A k \in 1..idx : component_files[k] # p) =>
              (reads[p] = 0 /\ p \notin opened_w /\ disk[p] = disk0[p])
       /\ \A k \in 1..Len(stdout) : stdout[k][1] # "Modified"
       /\ ~ ENABLED Next

\* C6 witness: the write of the second of three files failed after the
\* first was rewritten.
C6_Witness ==
  /\ pc = "aborted"
  /\ error = "write"
  /\ idx = 2
  /\ Len(component_files) = 3
  /\ component_files[1] \in opened_w
  /\ disk[component_files[1]] # disk0[component_files[1]]

\* C7 as stated: at every point of a run that has not failed, the tally is
\* the number of files overwritten so far.
C7_TallyAtEveryPoint ==
  pc # "aborted" => files_modified = Cardinality(opened_w)

\* C7 as amended: the tally is the number of files overwritten whenever the
\* run is between two files or over, and is one less from the write of a
\* file until the call returns; a run that ends has read every enumerated
\* file once, and its last line gives the number of files overwritten,
\* which is the number of "Fixed" lines before it.
C7_TallyBetweenFiles ==
  /\ pc \in {"loop", "done"} =>
       /\ files_modified = Cardinality(opened_w)
       /\ files_modified = Cardinality(FixedLines)
  /\ pc \in {"print", "return"} => files_modified = Cardinality(opened_w) - 1
  /\ pc \in {"read", "subs", "compare", "write"} => files_modified = Cardinality(opened_w)
  /\ pc = "done" =>
       /\ \A p \in DOMAIN disk :
            reads[p] = IF p \in Range(component_files) THEN 1 ELSE 0
       /\ Len(stdout) = files_modified + 1
       /\ stdout[Len(stdout)] = <<"Modified", files_modified>>
       /\ FixedLines = 1..files_modified
       /\ FixedPaths = opened_w

\* C7 witness: a run over three files has ended with two of them counted.
C7_Witness ==
  /\ pc = "done"
  /\ Len(component_files) = 3
  /\ files_modified = 2
  /\ Cardinality(FixedPaths) = 2

====
